---- MODULE Spec2Model ----
(***************************************************************************)
(* Model of swift_cells.py (SOAP): the SWIFT cell index, the read planner  *)
(* prepare_read and the collective read                                    *)
(* read_masked_cells_to_shared_memory.                                     *)
(*                                                                         *)
(* A cell is a record [count, offset, file]; the grid of one particle type *)
(* is the flattened (row-major) array of its cells, so a mask is a boolean *)
(* array over the same indices.  A read range is the tuple                 *)
(* <<file_offset, memory_offset, count>> of the source.                    *)
(***************************************************************************)
EXTENDS Integers, Sequences, FiniteSets, TLC

VARIABLES
    cell,            \* self.cell: particle type -> array of cells
    max_size,        \* the merge cap of prepare_read (scaled down)
    snap_metadata,   \* self.snap_metadata: particle type -> names found
    extra_filename,  \* self.extra_filename, "None" when not configured
    extra_metadata,  \* self.extra_metadata, set only with an extra_filename
    mask,            \* the mask argument of the current call
    property_names,  \* the property_names argument: <<ptype, names>> pairs
    comm_size,       \* comm.Get_size()
    reads,           \* the dict returned by prepare_read
    reads_for_type,  \* particle type -> its plan
    all_file_nrs,    \* the sorted union of the planned file numbers
    nr_parts,        \* particle type -> number of particles to read
    all_tasks,       \* the global deque of ReadTasks
    nr_tasks,        \* len(all_tasks) before sharing
    tasks,           \* rank -> its deque of ReadTasks
    data,            \* rank -> array -> size of its local section
    error,           \* the exception that left the function, or "none"
    pc,              \* position in the function that runs
    wpc,             \* rank -> its position from line 367 on
    synced,          \* rank -> number of arrays it has called sync() on
    order,           \* particle type -> array of the cells' "order" field
    dimension,       \* self.dimension: the number of cells on each axis
    cell_size,       \* self.cell_size
    pos_min,         \* the pos_min argument of mask_region
    pos_max,         \* the pos_max argument of mask_region
    cache,           \* rank -> its DatasetCache and the files it has opened
    last_call        \* the last call on a DatasetCache and what it did

gridVars == <<cell, max_size, snap_metadata, extra_filename, extra_metadata>>

callVars == <<mask, property_names, comm_size>>

readVars == <<reads_for_type, all_file_nrs, nr_parts, all_tasks, nr_tasks, tasks, data, error>>

execVars == <<wpc, synced>>

indexVars == <<order, dimension, cell_size>>

regionVars == <<pos_min, pos_max>>

cacheVars == <<cache, last_call>>

vars == <<gridVars, callVars, reads, readVars, pc, execVars, indexVars, regionVars, cacheVars>>

-----------------------------------------------------------------------------
(* Bounds of the model *)

NrCells == 3

CountValues == {0, 5}

OffsetValues == {0, 5, 10}

FileNrs == {0, 1}

CapValues == {10, 15}

PlanPType == "PartType1"

-----------------------------------------------------------------------------
(* Helpers on sequences and sets *)

Min(S) == CHOOSE x \in S : \A y \in S : x <= y

RECURSIVE SortedSeq(_)
SortedSeq(S) == IF S = {} THEN <<>> ELSE <<Min(S)>> \o SortedSeq(S \ {Min(S)})

-----------------------------------------------------------------------------
(* prepare_read *)

\* self.cell[ptype][mask].flatten(): the masked cells in row-major order
RECURSIVE SelectCells(_, _)
SelectCells(cells, m) ==
    IF cells = <<>> THEN <<>>
    ELSE IF Head(m) THEN <<Head(cells)>> \o SelectCells(Tail(cells), Tail(m))
    ELSE SelectCells(Tail(cells), Tail(m))

\* cells_to_read[cells_to_read["count"] > 0]
RECURSIVE DiscardEmpty(_)
DiscardEmpty(cells) ==
    IF cells = <<>> THEN <<>>
    ELSE IF Head(cells).count > 0 THEN <<Head(cells)>> \o DiscardEmpty(Tail(cells))
    ELSE DiscardEmpty(Tail(cells))

\* the key order of np.lexsort((offset, file)): file first, then offset
LexLess(a, b) == a.file < b.file \/ (a.file = b.file /\ a.offset < b.offset)

\* place x behind every element that does not sort after it (stable)
RECURSIVE LexInsert(_, _)
LexInsert(s, x) ==
    IF s = <<>> THEN <<x>>
    ELSE IF LexLess(x, Head(s)) THEN <<x>> \o s
    ELSE <<Head(s)>> \o LexInsert(Tail(s), x)

\* cells_to_read[np.lexsort((offset, file))]
RECURSIVE Lexsort(_)
Lexsort(cells) ==
    IF cells = <<>> THEN <<>>
    ELSE LexInsert(Lexsort(SubSeq(cells, 1, Len(cells) - 1)), cells[Len(cells)])

\* the merge condition with the cap compared against the absorbed cell alone
MergeCondition_CapOnCell1(cell1, cell2, cap) ==
    /\ cell1.file = cell2.file
    /\ cell1.offset + cell1.count = cell2.offset
    /\ cell1.count <= cap

\* the merge condition with a cap that the merged count must stay below
MergeCondition_StrictCap(cell1, cell2, cap) ==
    /\ cell1.file = cell2.file
    /\ cell1.offset + cell1.count = cell2.offset
    /\ cell1.count + cell2.count < cap

\* the condition of the merge
MergeCondition(cell1, cell2, cap) ==
    /\ cell1.file = cell2.file
    /\ cell1.offset + cell1.count = cell2.offset
    /\ cell1.count + cell2.count <= cap

\* MergeCondition, repeated for the variants of MergeCells below
MergeTest(cell1, cell2, cap) ==
    /\ cell1.file = cell2.file
    /\ cell1.offset + cell1.count = cell2.offset
    /\ cell1.count + cell2.count <= cap

\* a merge that forgets cell2["offset"] = cell1["offset"]
MergeCells_KeepsOffset(cells, cell_nr, cap) ==
    LET cell1 == cells[cell_nr]
        cell2 == cells[cell_nr + 1]
    IN  IF MergeTest(cell1, cell2, cap)
        THEN [cells EXCEPT ![cell_nr + 1] = [cell2 EXCEPT !.count = cell2.count + cell1.count],
                           ![cell_nr] = [cell1 EXCEPT !.count = 0]]
        ELSE cells

\* a merge that forgets cell1["count"] = 0
MergeCells_KeepsCell1(cells, cell_nr, cap) ==
    LET cell1 == cells[cell_nr]
        cell2 == cells[cell_nr + 1]
    IN  IF MergeTest(cell1, cell2, cap)
        THEN [cells EXCEPT ![cell_nr + 1] = [count  |-> cell2.count + cell1.count,
                                             offset |-> cell1.offset,
                                             file   |-> cell2.file]]
        ELSE cells

\* one iteration of the merge loop, cell_nr counted from 1
MergeCells(cells, cell_nr, cap) ==
    LET cell1 == cells[cell_nr]
        cell2 == cells[cell_nr + 1]
    IN  IF MergeCondition(cell1, cell2, cap)
        THEN [cells EXCEPT ![cell_nr + 1] = [count  |-> cell2.count + cell1.count,
                                             offset |-> cell1.offset,
                                             file   |-> cell2.file],
                           ![cell_nr] = [cell1 EXCEPT !.count = 0]]
        ELSE cells

\* the array after the first n iterations of the merge loop
RECURSIVE MergeLoop(_, _, _)
MergeLoop(cells, n, cap) ==
    IF n <= 0 THEN cells
    ELSE MergeCells(MergeLoop(cells, n - 1, cap), n, cap)

\* for cell_nr in range(nr_to_read-1)
MergeAdjacent(cells, cap) == MergeLoop(cells, Len(cells) - 1, cap)

\* np.unique(cells_to_read["file"])
unique_file_nrs(cells) == {cells[i].file : i \in 1..Len(cells)}

\* the running counter mem_offset when cell k is appended
RECURSIVE mem_offset(_, _)
mem_offset(cells, k) ==
    IF k <= 1 THEN 0 ELSE mem_offset(cells, k - 1) + cells[k - 1].count

\* the tuple appended for cell k
ReadRange(cells, k) == <<cells[k].offset, mem_offset(cells, k), cells[k].count>>

\* a key taken from the first cell of the array instead of the cell itself
ReadKey_FirstCell(cells, k) == cells[1].file

\* the key under which the tuple of cell k is stored
ReadKey(cells, k) == cells[k].file

\* reads[file_nr]: the tuples of the cells stored under file_nr, in array order
RECURSIVE ReadsOfFile(_, _, _)
ReadsOfFile(cells, file_nr, k) ==
    IF k = 0 THEN <<>>
    ELSE ReadsOfFile(cells, file_nr, k - 1) \o
         (IF ReadKey(cells, k) = file_nr THEN <<ReadRange(cells, k)>> ELSE <<>>)

MakeReads(cells) ==
    [file_nr \in unique_file_nrs(cells) |-> ReadsOfFile(cells, file_nr, Len(cells))]

\* the selected, non-empty cells in (file, offset) order
SortedCells(cells, m) == Lexsort(DiscardEmpty(SelectCells(cells, m)))

prepare_read(ptype, m) ==
    MakeReads(DiscardEmpty(MergeAdjacent(SortedCells(cell[ptype], m), max_size)))

-----------------------------------------------------------------------------
(* The planner on its own: one archive, one particle type, any mask *)

Cells == [count : CountValues, offset : OffsetValues, file : FileNrs]

Masks == [1..NrCells -> BOOLEAN]

NoMask == [i \in 1..NrCells |-> FALSE]

NoReads == <<>>

\* np.lexsort((offset, file)) as an array of indices: equal keys stay in index order
RECURSIVE LexInsertIdx(_, _, _)
LexInsertIdx(cells, s, x) ==
    IF s = <<>> THEN <<x>>
    ELSE IF LexLess(cells[x], cells[Head(s)]) THEN <<x>> \o s
    ELSE <<Head(s)>> \o LexInsertIdx(cells, Tail(s), x)

RECURSIVE LexsortIdx(_, _)
LexsortIdx(cells, n) ==
    IF n = 0 THEN <<>> ELSE LexInsertIdx(cells, LexsortIdx(cells, n - 1), n)

\* an order that stores the cell index at the position instead of the position
\* at the cell index
CellOrder_IndexAtPosition(cells) ==
    LET idx == LexsortIdx(cells, Len(cells))
    IN  [cell_order \in 1..Len(cells) |-> idx[cell_order] - 1]

\* cellgrid[cell_index]["order"] = cell_order for the pairs of enumerate(idx),
\* positions counted from 0
CellOrder(cells) ==
    LET idx == LexsortIdx(cells, Len(cells))
    IN  [cell_index \in 1..Len(cells) |->
            (CHOOSE cell_order \in 1..Len(idx) : idx[cell_order] = cell_index) - 1]

\* the indices among idx of the cells that are selected and not empty
RECURSIVE KeepSelected(_, _, _)
KeepSelected(idx, cells, m) ==
    IF idx = <<>> THEN <<>>
    ELSE (IF m[Head(idx)] /\ cells[Head(idx)].count > 0 THEN <<Head(idx)>> ELSE <<>>)
         \o KeepSelected(Tail(idx), cells, m)

\* the grid index of each element of the array the merge loop works on
SortedIdx(cells, m) == KeepSelected(LexsortIdx(cells, Len(cells)), cells, m)

\* the steps from self.cell[ptype] to the array the merge loop writes to:
\* [mask] and .flatten() (line 236), [count > 0] (line 239), [idx] (line 243)
SelectionSteps == <<"boolean index", "flatten", "boolean index", "integer index">>

\* indexing that hands out views of the array it indexes
GivesCopy_Never(step) == FALSE

\* numpy: indexing with a boolean or an integer array gives a new array, and
\* so does flatten()
GivesCopy(step) == step \in {"boolean index", "integer index", "flatten"}

\* the array of the merge loop shares its memory with self.cell[ptype]
MergeWritesToGrid == \A i \in 1..Len(SelectionSteps) : ~GivesCopy(SelectionSteps[i])

\* self.cell[ptype] after prepare_read: lines 253-255 write count and offset
\* to the array of the merge loop
CellsAfterRead(cells, m, cap) ==
    IF ~MergeWritesToGrid THEN cells
    ELSE LET idx    == SortedIdx(cells, m)
             merged == MergeAdjacent(SortedCells(cells, m), cap)
         IN  [i \in DOMAIN cells |->
                 IF \E k \in 1..Len(idx) : idx[k] = i
                 THEN merged[CHOOSE k \in 1..Len(idx) : idx[k] = i]
                 ELSE cells[i]]

\* the grid after __init__, its n cells on one axis
FlatIndex(n) ==
    /\ order = [ptype \in DOMAIN cell |-> CellOrder(cell[ptype])]
    /\ dimension = <<n, 1, 1>>
    /\ cell_size = <<1, 1, 1>>

\* no call of mask_region is under way
NoRegion ==
    /\ pos_min = <<>>
    /\ pos_max = <<>>

\* no DatasetCache exists
NoCache ==
    /\ cache = <<>>
    /\ last_call = <<>>

\* the locals of read_masked_cells_to_shared_memory before it runs
NoRead ==
    /\ reads_for_type = <<>>
    /\ all_file_nrs = <<>>
    /\ nr_parts = <<>>
    /\ all_tasks = <<>>
    /\ nr_tasks = 0
    /\ tasks = <<>>
    /\ data = <<>>
    /\ error = "none"
    /\ wpc = <<>>
    /\ synced = <<>>

InitPlan ==
    /\ cell \in [{PlanPType} -> [1..NrCells -> Cells]]
    /\ max_size \in CapValues
    /\ snap_metadata = [ptype \in {PlanPType} |-> {}]
    /\ extra_filename = "None"
    /\ extra_metadata = <<>>
    /\ mask = NoMask
    /\ property_names = <<>>
    /\ comm_size = 1
    /\ reads = NoReads
    /\ NoRead
    /\ FlatIndex(NrCells)
    /\ NoRegion
    /\ NoCache
    /\ pc = "idle"

\* reads = self.prepare_read(ptype, mask)
CallPrepareRead ==
    /\ pc = "idle"
    /\ \E m \in Masks :
        /\ mask' = m
        /\ reads' = prepare_read(PlanPType, m)
        /\ cell' = [cell EXCEPT ![PlanPType] = CellsAfterRead(@, m, max_size)]
    /\ pc' = "planned"
    /\ UNCHANGED <<max_size, snap_metadata, extra_filename, extra_metadata, indexVars, regionVars, cacheVars, execVars, property_names, comm_size, readVars>>

\* the caller drops the plan; the grid object lives on for the next call
DropPlan ==
    /\ pc = "planned"
    /\ mask' = NoMask
    /\ reads' = NoReads
    /\ pc' = "idle"
    /\ UNCHANGED <<gridVars, indexVars, regionVars, cacheVars, execVars, property_names, comm_size, readVars>>

NextPlan == CallPrepareRead \/ DropPlan

SpecPlan == InitPlan /\ [][NextPlan]_vars

-----------------------------------------------------------------------------
(* Properties of the planner *)

\* the ranges of a plan in ascending file number, within a file in list order
RECURSIVE RangesOfFiles(_, _)
RangesOfFiles(r, files) ==
    IF files = <<>> THEN <<>>
    ELSE r[Head(files)] \o RangesOfFiles(r, Tail(files))

PlannedRanges(r) == RangesOfFiles(r, SortedSeq(DOMAIN r))

RECURSIVE SumRangeCounts(_)
SumRangeCounts(rs) == IF rs = <<>> THEN 0 ELSE Head(rs)[3] + SumRangeCounts(Tail(rs))

RECURSIVE SumCellCounts(_)
SumCellCounts(cells) ==
    IF cells = <<>> THEN 0 ELSE Head(cells).count + SumCellCounts(Tail(cells))

\* the cells of the grid that the mask selects and that hold particles
SelectedIdx == {i \in 1..NrCells : mask[i] /\ cell[PlanPType][i].count > 0}

\* the selected non-empty cells of one file, in grid order
RECURSIVE CellsOfFile(_, _)
CellsOfFile(cells, f) ==
    IF cells = <<>> THEN <<>>
    ELSE (IF Head(cells).file = f THEN <<Head(cells)>> ELSE <<>>)
         \o CellsOfFile(Tail(cells), f)

\* C1: the memory offsets of a plan, taken by ascending file number and list
\* order, start at 0, each continue where the previous range ends, and end at
\* the sum of the range counts; each range is stored under the file of the
\* cells it covers.
C1_MemoryOffsetsPartition ==
    pc = "planned" =>
        LET rs == PlannedRanges(reads)
            sel == DiscardEmpty(SelectCells(cell[PlanPType], mask))
        IN  /\ rs # <<>> => rs[1][2] = 0
            /\ \A i \in 1..(Len(rs) - 1) : rs[i + 1][2] = rs[i][2] + rs[i][3]
            /\ rs # <<>> => rs[Len(rs)][2] + rs[Len(rs)][3] = SumRangeCounts(rs)
            /\ \A f \in DOMAIN reads :
                /\ reads[f] # <<>>
                /\ SumRangeCounts(reads[f]) = SumCellCounts(CellsOfFile(sel, f))
                /\ \A k \in 1..Len(reads[f]) :
                     \E i \in SelectedIdx :
                        /\ cell[PlanPType][i].file = f
                        /\ cell[PlanPType][i].offset = reads[f][k][1]
            /\ \A i \in SelectedIdx : cell[PlanPType][i].file \in DOMAIN reads

C1_Witness ==
    /\ pc = "planned"
    /\ Cardinality(DOMAIN reads) = 2
    /\ \E f \in DOMAIN reads : Len(reads[f]) = 2
    /\ PlannedRanges(reads)[3][2] > PlannedRanges(reads)[2][2]

-----------------------------------------------------------------------------
(* The merge pass *)

\* the array the merge loop starts from, and the array after i iterations
Sorted == SortedCells(cell[PlanPType], mask)

Work(i) == MergeLoop(Sorted, i, max_size)

\* record-adjacent cells of one file
Adjacent(a, b) == a.file = b.file /\ a.offset + a.count = b.offset

\* C2: iteration i of the merge pass merges cell i into cell i+1 exactly
\* when both are in one file, offset[i] + count[i] = offset[i+1] and the
\* summed count is at most the cap; a range grown by a merge never exceeds
\* the cap, and a merge skipped for the cap leaves two consecutive ranges.
C2_MergeIffAdjacentWithinCap ==
    pc = "planned" =>
        LET s   == Sorted
            n   == Len(s)
            W   == [i \in 0..n |-> MergeLoop(s, i, max_size)]
            fin == W[IF n = 0 THEN 0 ELSE n - 1]
            rs  == PlannedRanges(reads)
            out == DiscardEmpty(fin)
        IN  /\ \A i \in 1..(n - 1) :
                LET before == W[i - 1]
                    after  == W[i]
                    c1     == before[i]
                    c2     == before[i + 1]
                    f      == c1.file
                IN  /\ (after[i].count = 0) <=>
                           (/\ c1.file = c2.file
                            /\ c1.offset + c1.count = c2.offset
                            /\ c1.count + c2.count <= max_size)
                    /\ after[i].count = 0 =>
                           /\ after[i + 1].count = c1.count + c2.count
                           /\ after[i + 1].offset = c1.offset
                           /\ after[i + 1].file = c1.file
                    /\ after[i].count # 0 => after = before
                    /\ (Adjacent(c1, c2) /\ c1.count + c2.count > max_size) =>
                           \E k \in 1..(Len(reads[f]) - 1) :
                               /\ reads[f][k][1] = c1.offset
                               /\ reads[f][k][3] = c1.count
                               /\ reads[f][k + 1][1] = c2.offset
            /\ \A j \in 1..n :
                   (fin[j].count > 0 /\ fin[j].count # s[j].count)
                       => fin[j].count <= max_size
            /\ Len(rs) = Len(out)
            /\ \A k \in 1..Len(rs) :
                   rs[k][1] = out[k].offset /\ rs[k][3] = out[k].count

\* a merge was skipped for the cap alone, and another one was taken
C2_Witness ==
    /\ pc = "planned"
    /\ Len(Sorted) = 3
    /\ Work(1)[1].count = 0
    /\ Adjacent(Work(1)[2], Work(1)[3])
    /\ Work(1)[2].count + Work(1)[3].count > max_size
    /\ Len(PlannedRanges(reads)) = 2

\* a maximal run a..b of consecutively record-adjacent cells of the sorted array
IsRun(s, a, b) ==
    /\ a < b
    /\ \A j \in a..(b - 1) : Adjacent(s[j], s[j + 1])
    /\ a = 1 \/ ~Adjacent(s[a - 1], s[a])
    /\ b = Len(s) \/ ~Adjacent(s[b], s[b + 1])

\* C3: a maximal run of k >= 2 record-adjacent selected cells whose counts sum
\* to at most the cap becomes one range, at the first cell's offset and with the
\* summed count; three adjacent cells of count 5 give one range of 15 under cap
\* 15, and a range of 10 followed by a range of 5 under cap 10.
C3_RunMergesIntoOneRange ==
    pc = "planned" =>
        LET s   == Sorted
            n   == Len(s)
            fin == MergeAdjacent(s, max_size)
        IN  /\ \A a \in 1..n : \A b \in 1..n :
                (IsRun(s, a, b) /\ SumCellCounts(SubSeq(s, a, b)) <= max_size) =>
                    LET f   == s[a].file
                        pos == Cardinality({j \in 1..b : fin[j].count > 0 /\ fin[j].file = f})
                    IN  /\ \A j \in a..(b - 1) : fin[j].count = 0
                        /\ pos \in 1..Len(reads[f])
                        /\ reads[f][pos][1] = s[a].offset
                        /\ reads[f][pos][3] = SumCellCounts(SubSeq(s, a, b))
            /\ (/\ n = 3
                /\ \A j \in 1..3 : s[j].count = 5
                /\ Adjacent(s[1], s[2])
                /\ Adjacent(s[2], s[3])) =>
                    LET f == s[1].file
                        o == s[1].offset
                    IN  /\ max_size = 15 => reads = (f :> << <<o, 0, 15>> >>)
                        /\ max_size = 10 =>
                               reads = (f :> << <<o, 0, 10>>, <<o + 10, 10, 5>> >>)

C3_Witness ==
    /\ pc = "planned"
    /\ max_size = 15
    /\ Len(Sorted) = 3
    /\ IsRun(Sorted, 1, 3)
    /\ \A j \in 1..3 : Sorted[j].count = 5
    /\ \E f \in DOMAIN reads : reads[f] = << <<0, 0, 15>> >>

\* the three cells of count 5 under cap 10
C3_WitnessCap10 ==
    /\ pc = "planned"
    /\ max_size = 10
    /\ Len(Sorted) = 3
    /\ IsRun(Sorted, 1, 3)
    /\ \E f \in DOMAIN reads : reads[f] = << <<0, 0, 10>>, <<10, 10, 5>> >>

\* the records [offset, offset+count) of a cell or of a range, as positions
CellRecords(c) == {<<c.file, x>> : x \in c.offset..(c.offset + c.count - 1)}

RangeRecords(f, r) == {<<f, x>> : x \in r[1]..(r[1] + r[3] - 1)}

\* the records read by the ranges stored under file f
FileRecords(r, f) == UNION {RangeRecords(f, r[f][k]) : k \in 1..Len(r[f])}

\* no two cells of the grid share a record
DisjointCells ==
    \A i \in 1..NrCells : \A j \in 1..NrCells :
        i # j => CellRecords(cell[PlanPType][i]) \cap CellRecords(cell[PlanPType][j]) = {}

\* C4: when the cells of the grid share no record, the ranges of a plan cover
\* exactly the records of the selected cells, no record twice, and the range
\* counts sum to the selected cells' counts.
C4_RangesCoverSelectedCells ==
    (pc = "planned" /\ DisjointCells) =>
        /\ UNION {FileRecords(reads, f) : f \in DOMAIN reads}
             = UNION {CellRecords(cell[PlanPType][i]) : i \in SelectedIdx}
        /\ \A f \in DOMAIN reads : \A k \in 1..Len(reads[f]) : \A l \in 1..Len(reads[f]) :
               k # l => RangeRecords(f, reads[f][k]) \cap RangeRecords(f, reads[f][l]) = {}
        /\ SumRangeCounts(PlannedRanges(reads))
             = SumCellCounts(DiscardEmpty(SelectCells(cell[PlanPType], mask)))

\* two of three non-empty cells selected, merged into one range
C4_Witness ==
    /\ pc = "planned"
    /\ DisjointCells
    /\ \A i \in 1..NrCells : cell[PlanPType][i].count > 0
    /\ Cardinality(SelectedIdx) = 2
    /\ Len(PlannedRanges(reads)) = 1

\* C18: a call of prepare_read leaves count, offset, file and order of every
\* cell of the grid as they were, and the plan it returns is the plan a call
\* with the same type and mask returns afterwards.
C18_GridUnchangedByPrepareRead ==
    /\ [][cell' = cell /\ order' = order]_vars
    /\ [](pc = "planned" => reads = prepare_read(PlanPType, mask))

\* three selected cells were merged into one range and are still three cells
\* of 5 particles in the grid
C18_Witness ==
    /\ pc = "planned"
    /\ mask = [i \in 1..NrCells |-> TRUE]
    /\ \A i \in 1..NrCells : cell[PlanPType][i].count = 5
    /\ \A i \in 1..NrCells : cell[PlanPType][i].offset = 5 * (NrCells - i)
    /\ order[PlanPType] = [i \in 1..NrCells |-> NrCells - i]
    /\ PlannedRanges(reads) = << <<0, 0, 5 * NrCells>> >>

\* C20: two consecutive ranges of a file that are record-adjacent have a
\* combined count above the cap.
C20_MergeIsMaximal ==
    pc = "planned" =>
        \A f \in DOMAIN reads : \A k \in 1..(Len(reads[f]) - 1) :
            reads[f][k][1] + reads[f][k][3] = reads[f][k + 1][1]
                => reads[f][k][3] + reads[f][k + 1][3] > max_size

\* a merged range of 10 followed by an adjacent range of 5 under cap 10
C20_Witness ==
    /\ pc = "planned"
    /\ max_size = 10
    /\ \E f \in DOMAIN reads :
           /\ Len(reads[f]) = 2
           /\ reads[f][1][3] = 10 /\ reads[f][2][3] = 5
           /\ reads[f][1][1] + reads[f][1][3] = reads[f][2][1]

-----------------------------------------------------------------------------
(* read_masked_cells_to_shared_memory: plans, tasks, sharing, allocation *)

MaxRanks == 3

ReadNrCells == 2

ReadCapValues == {5, 10}

PTypes == {"PartType0", "PartType1"}

\* the keys of property_names
RequestedTypes(pn) == {pn[i][1] : i \in 1..Len(pn)}

\* ReadTask.__init__
ReadTask(file_name, ptype, dataset, file_offset, mem_off, count) ==
    [file_name   |-> file_name,
     ptype       |-> ptype,
     dataset     |-> dataset,
     file_offset |-> file_offset,
     mem_offset  |-> mem_off,
     count       |-> count]

\* pattern % {"file_nr" : file_nr}
FileName(pattern, file_nr) == <<pattern, file_nr>>

\* the test "dataset in self.snap_metadata": membership among the keys of the dict
HasDataset(dataset, metadata, ptype) == dataset \in DOMAIN metadata

\* nr_parts[ptype] as the loops over all_file_nrs add it up
RECURSIVE CountInFiles(_, _)
CountInFiles(plan, files) ==
    IF files = <<>> THEN 0
    ELSE SumRangeCounts(plan[Head(files)]) + CountInFiles(plan, Tail(files))

\* reads_for_type[ptype][file_nr] raises KeyError
MissingFileKey ==
    \E i \in 1..Len(all_file_nrs) : \E ptype \in RequestedTypes(property_names) :
        all_file_nrs[i] \notin DOMAIN reads_for_type[ptype]

\* the innermost loop: one task per range
TasksOfRanges(file_name, ptype, dataset, ranges) ==
    [k \in 1..Len(ranges) |->
        ReadTask(file_name, ptype, dataset, ranges[k][1], ranges[k][2], ranges[k][3])]

\* for dataset in property_names[ptype]
RECURSIVE TasksOfDatasets(_, _, _, _, _)
TasksOfDatasets(file_name, ptype, names, metadata, ranges) ==
    IF names = <<>> THEN <<>>
    ELSE (IF HasDataset(Head(names), metadata, ptype)
          THEN TasksOfRanges(file_name, ptype, Head(names), ranges)
          ELSE <<>>)
         \o TasksOfDatasets(file_name, ptype, Tail(names), metadata, ranges)

\* for ptype in property_names
RECURSIVE TasksOfTypes(_, _, _, _, _)
TasksOfTypes(pattern, file_nr, pn, metadata, plans) ==
    IF pn = <<>> THEN <<>>
    ELSE TasksOfDatasets(FileName(pattern, file_nr), Head(pn)[1], Head(pn)[2],
                         metadata, plans[Head(pn)[1]][file_nr])
         \o TasksOfTypes(pattern, file_nr, Tail(pn), metadata, plans)

\* the files taken from the last to the first
RECURSIVE TasksOfFiles_Descending(_, _, _, _, _)
TasksOfFiles_Descending(pattern, files, pn, metadata, plans) ==
    IF files = <<>> THEN <<>>
    ELSE TasksOfFiles_Descending(pattern, Tail(files), pn, metadata, plans)
         \o TasksOfTypes(pattern, Head(files), pn, metadata, plans)

\* for file_nr in all_file_nrs
RECURSIVE TasksOfFiles(_, _, _, _, _)
TasksOfFiles(pattern, files, pn, metadata, plans) ==
    IF files = <<>> THEN <<>>
    ELSE TasksOfTypes(pattern, Head(files), pn, metadata, plans)
         \o TasksOfFiles(pattern, Tail(files), pn, metadata, plans)

\* the number of tasks of a rank, with the extra task given to one rank more
TaskShare_OneRankMore(rank, n, size) ==
    (n \div size) + (IF rank <= n % size THEN 1 ELSE 0)

\* the number of tasks rank takes from the deque
TaskShare(rank, n, size) ==
    (n \div size) + (IF rank < n % size THEN 1 ELSE 0)

\* the queues, the rest of the deque and whether every popleft found a task,
\* after the ranks below rank have taken their tasks
RECURSIVE ShareOut(_, _, _)
ShareOut(all, size, rank) ==
    IF rank = 0 THEN [queues |-> <<>>, rest |-> all, ok |-> TRUE]
    ELSE LET prev == ShareOut(all, size, rank - 1)
             k    == TaskShare(rank - 1, Len(all), size)
         IN  IF ~prev.ok \/ k > Len(prev.rest)
             THEN [prev EXCEPT !.ok = FALSE]
             ELSE [queues |-> Append(prev.queues, SubSeq(prev.rest, 1, k)),
                   rest   |-> SubSeq(prev.rest, k + 1, Len(prev.rest)),
                   ok     |-> TRUE]

\* the (ptype, name) pairs in the order of the allocation loops
RECURSIVE ArraysOfNames(_, _)
ArraysOfNames(ptype, names) ==
    IF names = <<>> THEN <<>>
    ELSE << <<ptype, Head(names)>> >> \o ArraysOfNames(ptype, Tail(names))

RECURSIVE Arrays(_)
Arrays(pn) ==
    IF pn = <<>> THEN <<>>
    ELSE ArraysOfNames(Head(pn)[1], Head(pn)[2]) \o Arrays(Tail(pn))

\* the local section with the extra record given to one rank more
NrLocal_OneRankMore(nr, size, rank) ==
    (nr \div size) + (IF rank <= nr % size THEN 1 ELSE 0)

\* nr_local of comm_rank
NrLocal(nr, size, rank) ==
    (nr \div size) + (IF rank < nr % size THEN 1 ELSE 0)

\* the exception of the metadata lookup for one array, or "none"
MetadataError(ptype, name) ==
    IF HasDataset(name, snap_metadata, ptype)
    THEN (IF name \in snap_metadata[ptype] THEN "none" ELSE "KeyError_metadata")
    ELSE IF extra_filename = "None" THEN "AttributeError_extra_metadata"
    ELSE IF name \in extra_metadata[ptype] THEN "none" ELSE "KeyError_metadata"

\* the first exception in the order of the allocation loops, or "none"
RECURSIVE FirstMetadataError(_)
FirstMetadataError(arrays) ==
    IF arrays = <<>> THEN "none"
    ELSE IF MetadataError(Head(arrays)[1], Head(arrays)[2]) # "none"
         THEN MetadataError(Head(arrays)[1], Head(arrays)[2])
         ELSE FirstMetadataError(Tail(arrays))

\* lines 296-305: the plan of every requested type and the union of their files
PlanReads ==
    /\ pc = "start"
    /\ LET plans == [ptype \in RequestedTypes(property_names) |-> prepare_read(ptype, mask)]
       IN  /\ reads_for_type' = plans
           /\ all_file_nrs' = SortedSeq(UNION {DOMAIN plans[ptype] : ptype \in DOMAIN plans})
    /\ cell' = [ptype \in DOMAIN cell |->
                   IF ptype \in RequestedTypes(property_names)
                   THEN CellsAfterRead(cell[ptype], mask, max_size)
                   ELSE cell[ptype]]
    /\ pc' = "planned"
    /\ UNCHANGED <<max_size, snap_metadata, extra_filename, extra_metadata, indexVars, regionVars, cacheVars, execVars, callVars, reads, nr_parts, all_tasks, nr_tasks, tasks, data, error>>

\* lines 307-312: count the particles of each type
CountParticles ==
    /\ pc = "planned"
    /\ IF MissingFileKey
       THEN /\ error' = "KeyError_reads"
            /\ pc' = "raised"
            /\ UNCHANGED nr_parts
       ELSE /\ nr_parts' = [ptype \in RequestedTypes(property_names) |->
                               CountInFiles(reads_for_type[ptype], all_file_nrs)]
            /\ pc' = "counted"
            /\ UNCHANGED error
    /\ UNCHANGED <<gridVars, indexVars, regionVars, cacheVars, execVars, callVars, reads, reads_for_type, all_file_nrs, all_tasks,
                   nr_tasks, tasks, data>>

\* lines 314-333: the tasks of the snapshot files, then those of the extra files
CreateTasks ==
    /\ pc = "counted"
    /\ all_tasks' =
          TasksOfFiles("snap", all_file_nrs, property_names, snap_metadata, reads_for_type)
          \o (IF extra_filename # "None"
              THEN TasksOfFiles(extra_filename, all_file_nrs, property_names,
                                extra_metadata, reads_for_type)
              ELSE <<>>)
    /\ pc' = "tasks"
    /\ UNCHANGED <<gridVars, indexVars, regionVars, cacheVars, execVars, callVars, reads, reads_for_type, all_file_nrs, nr_parts,
                   nr_tasks, tasks, data, error>>

\* lines 335-346: one queue per rank, filled from the left of the deque
ShareTasks ==
    /\ pc = "tasks"
    /\ nr_tasks' = Len(all_tasks)
    /\ LET out == ShareOut(all_tasks, comm_size, comm_size)
       IN  IF ~out.ok
           THEN /\ error' = "IndexError"
                /\ pc' = "raised"
                /\ UNCHANGED <<all_tasks, tasks>>
           ELSE /\ all_tasks' = out.rest
                /\ tasks' = [rank \in 0..(comm_size - 1) |-> out.queues[rank + 1]]
                /\ IF out.rest = <<>>
                   THEN pc' = "shared" /\ UNCHANGED error
                   ELSE pc' = "raised" /\ error' = "AssertionError"
    /\ UNCHANGED <<gridVars, indexVars, regionVars, cacheVars, execVars, callVars, reads, reads_for_type, all_file_nrs, nr_parts, data>>

\* lines 348-365: every rank allocates its section of every array
Allocate ==
    /\ pc = "shared"
    /\ LET arrays == Arrays(property_names)
           failed == FirstMetadataError(arrays)
       IN  IF failed # "none"
           THEN /\ error' = failed
                /\ pc' = "raised"
                /\ UNCHANGED data
           ELSE /\ data' = [rank \in 0..(comm_size - 1) |->
                              [a \in {arrays[i] : i \in 1..Len(arrays)} |->
                                  NrLocal(nr_parts[a[1]], comm_size, rank)]]
                /\ pc' = "allocated"
                /\ UNCHANGED error
    /\ UNCHANGED <<gridVars, indexVars, regionVars, cacheVars, execVars, callVars, reads, reads_for_type, all_file_nrs, nr_parts,
                   all_tasks, nr_tasks, tasks>>

-----------------------------------------------------------------------------
(* One rank running the function up to the allocation, on small archives *)

RECURSIVE LayoutOffset(_, _, _)
LayoutOffset(counts, files, i) ==
    IF i <= 1 THEN 0
    ELSE LET before == LayoutOffset([j \in 1..(i - 1) |-> counts[j]],
                                    [j \in 1..(i - 1) |-> IF j = i - 1 THEN files[i] ELSE files[j]],
                                    i - 1)
         IN  before + (IF files[i - 1] = files[i] THEN counts[i - 1] ELSE 0)

\* the cell arrays of a snapshot: in each file the cells follow one another
SnapshotCells ==
    {[i \in 1..ReadNrCells |->
        [count |-> counts[i], offset |-> LayoutOffset(counts, files, i), file |-> files[i]]] :
     counts \in [1..ReadNrCells -> CountValues], files \in [1..ReadNrCells -> FileNrs]}

TypeLists == {<<"PartType0">>, <<"PartType0", "PartType1">>, <<"PartType1", "PartType0">>}

NameLists == {<<"Masses">>, <<"PartType0">>, <<"Masses", "PartType0">>}

InitRead ==
    /\ cell \in [PTypes -> SnapshotCells]
    /\ max_size \in ReadCapValues
    /\ snap_metadata \in {[ptype \in PTypes |-> found] :
                             found \in {{"Masses"}, {"Masses", "PartType0"}}}
    /\ \/ extra_filename = "None" /\ extra_metadata = <<>>
       \/ extra_filename = "extra" /\ extra_metadata = [ptype \in PTypes |-> {"Masses"}]
    /\ mask = [i \in 1..ReadNrCells |-> TRUE]
    /\ property_names \in {[i \in 1..Len(types) |-> <<types[i], names>>] :
                              types \in TypeLists, names \in NameLists}
    /\ comm_size \in 1..MaxRanks
    /\ reads = NoReads
    /\ NoRead
    /\ FlatIndex(ReadNrCells)
    /\ NoRegion
    /\ NoCache
    /\ pc = "start"

NextRead == PlanReads \/ CountParticles \/ CreateTasks \/ ShareTasks \/ Allocate

SpecRead == InitRead /\ [][NextRead]_vars

\* the planned ranges of one particle type, summed
PlannedCount(ptype) == SumRangeCounts(PlannedRanges(reads_for_type[ptype]))

\* C5: once the task list is built it holds, for every requested type and
\* property, a task for each planned range of the type in each touched file,
\* and the destination slices of those tasks cover [0, nr_parts[ptype]).
C5_TaskForEveryRange ==
    pc = "tasks" =>
        \A i \in 1..Len(property_names) :
            LET ptype == property_names[i][1]
                names == property_names[i][2]
                plan  == reads_for_type[ptype]
            IN  \A n \in 1..Len(names) :
                    /\ \A f \in DOMAIN plan : \A k \in 1..Len(plan[f]) :
                           \E t \in 1..Len(all_tasks) :
                               /\ all_tasks[t].ptype = ptype
                               /\ all_tasks[t].dataset = names[n]
                               /\ all_tasks[t].file_name[2] = f
                               /\ all_tasks[t].file_offset = plan[f][k][1]
                               /\ all_tasks[t].mem_offset = plan[f][k][2]
                               /\ all_tasks[t].count = plan[f][k][3]
                    /\ \A x \in 0..(nr_parts[ptype] - 1) :
                           \E t \in 1..Len(all_tasks) :
                               /\ all_tasks[t].ptype = ptype
                               /\ all_tasks[t].dataset = names[n]
                               /\ all_tasks[t].mem_offset <= x
                               /\ x < all_tasks[t].mem_offset + all_tasks[t].count

\* C6: the totals are computed without error and equal the summed counts of
\* the planned ranges of each requested type.
C6_TotalsWithoutError ==
    pc \notin {"start", "planned"} =>
        /\ error # "KeyError_reads"
        /\ \A ptype \in RequestedTypes(property_names) :
               nr_parts[ptype] = PlannedCount(ptype)

\* C15: no two tasks of the list write overlapping slices of the same array.
C15_NoOverlappingSlices ==
    pc = "tasks" =>
        \A t, u \in 1..Len(all_tasks) :
            (t < u /\ all_tasks[t].ptype = all_tasks[u].ptype
                   /\ all_tasks[t].dataset = all_tasks[u].dataset)
                => \/ all_tasks[t].mem_offset + all_tasks[t].count <= all_tasks[u].mem_offset
                   \/ all_tasks[u].mem_offset + all_tasks[u].count <= all_tasks[t].mem_offset

-----------------------------------------------------------------------------
(* The task list on its own: one rank, names that pass the tests of lines   *)
(* 321 and 331                                                              *)

TaskNameLists == {<<"PartType0">>, <<"PartType1", "PartType0">>, <<"Masses", "PartType0">>}

InitTasks ==
    /\ cell \in [PTypes -> SnapshotCells]
    /\ max_size \in ReadCapValues
    /\ snap_metadata = [ptype \in PTypes |-> {"Masses", "PartType0", "PartType1"}]
    /\ \/ extra_filename = "None" /\ extra_metadata = <<>>
       \/ extra_filename = "extra" /\ extra_metadata = [ptype \in PTypes |-> {"Masses"}]
    /\ mask = [i \in 1..ReadNrCells |-> TRUE]
    /\ property_names \in {[i \in 1..Len(types) |-> <<types[i], names>>] :
                              types \in TypeLists, names \in TaskNameLists}
    /\ comm_size = 1
    /\ reads = NoReads
    /\ NoRead
    /\ FlatIndex(ReadNrCells)
    /\ NoRegion
    /\ NoCache
    /\ pc = "start"

NextTasks == PlanReads \/ CountParticles \/ CreateTasks

SpecTasks == InitTasks /\ [][NextTasks]_vars

PositionIn(seq, x) == CHOOSE i \in 1..Len(seq) : seq[i] = x

\* where a task stands in the nesting: source, file, type, property, range
TaskKey(t) ==
    LET file_nr == t.file_name[2]
        type_nr == CHOOSE i \in 1..Len(property_names) : property_names[i][1] = t.ptype
    IN  <<IF t.file_name[1] = "snap" THEN 0 ELSE 1,
          file_nr,
          type_nr,
          PositionIn(property_names[type_nr][2], t.dataset),
          PositionIn(reads_for_type[t.ptype][file_nr],
                     <<t.file_offset, t.mem_offset, t.count>>)>>

KeyLess(a, b) ==
    \E i \in 1..Len(a) : a[i] < b[i] /\ \A j \in 1..(i - 1) : a[j] = b[j]

\* C16: the task list is ordered by source (the snapshot before the extra
\* files), then by ascending file number, then by the position of the type
\* and of the property in property_names, then by the position of the range in
\* the plan of the file.
C16_TasksInCanonicalOrder ==
    pc = "tasks" =>
        \A t \in 1..(Len(all_tasks) - 1) :
            KeyLess(TaskKey(all_tasks[t]), TaskKey(all_tasks[t + 1]))

\* two files, two types in the caller's order, two properties and the extra
\* files: sixteen tasks, the first from the snapshot and the last from the
\* extra file 1
C16_Witness ==
    /\ pc = "tasks"
    /\ extra_filename = "extra"
    /\ all_file_nrs = <<0, 1>>
    /\ property_names = << <<"PartType1", <<"PartType1", "PartType0">>>>,
                           <<"PartType0", <<"PartType1", "PartType0">>>> >>
    /\ Len(all_tasks) = 16
    /\ all_tasks[1].file_name = <<"snap", 0>> /\ all_tasks[1].ptype = "PartType1"
    /\ all_tasks[2].dataset = "PartType0"
    /\ all_tasks[16].file_name = <<"extra", 1>> /\ all_tasks[16].ptype = "PartType0"

-----------------------------------------------------------------------------
(* Sharing and allocation on their own: any number of tasks and particles *)

MaxTasks == 5

MaxParts == 20

\* the state before line 335: n tasks in the deque, a total for the one type
InitShare ==
    /\ cell = [ptype \in {PlanPType} |-> [i \in 1..NrCells |-> [count |-> 0, offset |-> 0, file |-> 0]]]
    /\ max_size \in CapValues
    /\ snap_metadata = [ptype \in {PlanPType} |-> {"Masses"}]
    /\ extra_filename = "extra"
    /\ extra_metadata = [ptype \in {PlanPType} |-> {"Masses"}]
    /\ mask = NoMask
    /\ property_names = << <<PlanPType, <<"Masses">>>> >>
    /\ comm_size \in 1..MaxRanks
    /\ reads = NoReads
    /\ reads_for_type = <<>>
    /\ all_file_nrs = <<>>
    /\ nr_parts \in [{PlanPType} -> 0..MaxParts]
    /\ \E n \in 0..MaxTasks : all_tasks = [i \in 1..n |-> i]
    /\ nr_tasks = 0
    /\ tasks = <<>>
    /\ data = <<>>
    /\ error = "none"
    /\ wpc = <<>>
    /\ synced = <<>>
    /\ FlatIndex(NrCells)
    /\ NoRegion
    /\ NoCache
    /\ pc = "tasks"

NextShare == ShareTasks \/ Allocate

SpecShare == InitShare /\ [][NextShare]_vars

\* the queues of ranks 0..rank-1, one after the other
RECURSIVE QueuesInRankOrder(_, _)
QueuesInRankOrder(queues, rank) ==
    IF rank = 0 THEN <<>>
    ELSE QueuesInRankOrder(queues, rank - 1) \o queues[rank - 1]

RECURSIVE SumLocal(_, _, _)
SumLocal(d, a, rank) ==
    IF rank = 0 THEN 0 ELSE SumLocal(d, a, rank - 1) + d[rank - 1][a]

\* C7: the local section of rank r has n // p records, one more if r < n % p;
\* the sections of all ranks sum to n; 20 records on 3 ranks give 7, 7, 6.
C7_LocalSections ==
    pc = "allocated" =>
        \A a \in DOMAIN data[0] :
            LET n == nr_parts[a[1]]
            IN  /\ \A r \in 0..(comm_size - 1) :
                       data[r][a] = (n \div comm_size) + (IF r < n % comm_size THEN 1 ELSE 0)
                /\ SumLocal(data, a, comm_size) = n
                /\ (n = 20 /\ comm_size = 3) =>
                       <<data[0][a], data[1][a], data[2][a]>> = <<7, 7, 6>>

C7_Witness ==
    /\ pc = "allocated"
    /\ comm_size = 3
    /\ nr_parts[PlanPType] = 20
    /\ <<data[0][<<PlanPType, "Masses">>], data[1][<<PlanPType, "Masses">>],
         data[2][<<PlanPType, "Masses">>]>> = <<7, 7, 6>>

\* C8: sharing never fails; afterwards the deque is empty, the queues taken in
\* rank order are the original list, and rank r holds n // p tasks, one more
\* if r < n % p.
C8_TasksSharedEvenly ==
    /\ error \notin {"IndexError", "AssertionError"}
    /\ pc \in {"shared", "allocated"} =>
        /\ all_tasks = <<>>
        /\ DOMAIN tasks = 0..(comm_size - 1)
        /\ QueuesInRankOrder(tasks, comm_size) = [i \in 1..nr_tasks |-> i]
        /\ \A r \in 0..(comm_size - 1) :
               Len(tasks[r]) = (nr_tasks \div comm_size)
                                 + (IF r < nr_tasks % comm_size THEN 1 ELSE 0)

\* fewer tasks than ranks: the last rank's queue stays empty
C8_Witness ==
    /\ pc = "shared"
    /\ comm_size = 3
    /\ nr_tasks = 2
    /\ tasks = (0 :> <<1>>) @@ (1 :> <<2>>) @@ (2 :> <<>>)

-----------------------------------------------------------------------------
(* Index construction: the order of the cells in the snapshot *)

\* the cell arrays as read at lines 193-199, before their order is set
InitIndex ==
    /\ cell \in [{PlanPType} -> [1..NrCells -> Cells]]
    /\ max_size \in CapValues
    /\ snap_metadata = [ptype \in {PlanPType} |-> {}]
    /\ extra_filename = "None"
    /\ extra_metadata = <<>>
    /\ mask = NoMask
    /\ property_names = <<>>
    /\ comm_size = 1
    /\ reads = NoReads
    /\ NoRead
    /\ order = [ptype \in {PlanPType} |-> <<>>]
    /\ dimension = <<NrCells, 1, 1>>
    /\ cell_size = <<1, 1, 1>>
    /\ NoRegion
    /\ NoCache
    /\ pc = "cells_read"

\* lines 201-206
DetermineOrder ==
    /\ pc = "cells_read"
    /\ order' = [ptype \in DOMAIN cell |-> CellOrder(cell[ptype])]
    /\ pc' = "indexed"
    /\ UNCHANGED <<gridVars, dimension, cell_size, regionVars, cacheVars, callVars,
                   reads, readVars, execVars>>

NextIndex == DetermineOrder

SpecIndex == InitIndex /\ [][NextIndex]_vars

\* C13: the order values of a particle type are a permutation of
\* 0..nr_cells-1; a cell with a smaller (file, offset) key has the smaller
\* order; cells with the same key, listed in index order as a stable sort
\* lists them, have increasing orders.
C13_OrderFollowsFileAndOffset ==
    pc = "indexed" =>
        \A ptype \in DOMAIN cell :
            LET c == cell[ptype]
                o == order[ptype]
                n == Len(c)
            IN  /\ DOMAIN o = 1..n
                /\ {o[i] : i \in 1..n} = 0..(n - 1)
                /\ \A i, j \in 1..n : LexLess(c[i], c[j]) => o[i] < o[j]
                /\ \A i, j \in 1..n :
                       (i < j /\ c[i].file = c[j].file /\ c[i].offset = c[j].offset)
                           => o[i] < o[j]

\* two cells share file and offset and a later cell comes before both
C13_Witness ==
    /\ pc = "indexed"
    /\ cell[PlanPType][1].file = 1 /\ cell[PlanPType][2].file = 1
    /\ cell[PlanPType][1].offset = 5 /\ cell[PlanPType][2].offset = 5
    /\ cell[PlanPType][3].file = 0
    /\ order[PlanPType][1] = 1 /\ order[PlanPType][2] = 2 /\ order[PlanPType][3] = 0

-----------------------------------------------------------------------------
(* empty_mask and mask_region.  Lengths are whole numbers of a unit, so that *)
(* floor(pos/cell_size) is the floored quotient; a mask is a boolean array   *)
(* over the triples of grid indices, counted from 0.                         *)

MaxPos == 3

PosValues == (-MaxPos)..MaxPos

Extents == {0, 1, 3}

DimValues == {1, 2}

CellSizes == {<<2, 2, 2>>, <<1, 2, 3>>}

Axes == {1, 2, 3}

GridIndices ==
    {<<i, j, k>> : i \in 0..(dimension[1] - 1), j \in 0..(dimension[2] - 1),
                   k \in 0..(dimension[3] - 1)}

\* np.zeros(self.dimension, dtype=np.bool)
empty_mask == [idx \in GridIndices |-> FALSE]

\* np.floor(pos/self.cell_size) as int, on one axis
CellIndex(pos, axis) == pos[axis] \div cell_size[axis]

\* an index held inside the grid instead of wrapped around it
WrapIndex_Clip(i, axis) ==
    IF i < 0 THEN 0 ELSE IF i >= dimension[axis] THEN dimension[axis] - 1 ELSE i

\* ii = i % self.dimension[0], and so on the other axes
WrapIndex(i, axis) == i % dimension[axis]

\* the values of ii (jj, kk) over range(imin, imax+1)
AxisIndices(axis, lo, hi) ==
    {WrapIndex(i, axis) : i \in CellIndex(lo, axis)..CellIndex(hi, axis)}

\* the mask after mask_region(mask, pos_min, pos_max)
mask_region(m, lo, hi) ==
    [idx \in DOMAIN m |->
        IF \A axis \in Axes : idx[axis] \in AxisIndices(axis, lo, hi)
        THEN TRUE ELSE m[idx]]

\* a grid of any shape, and an empty mask for it
InitMask ==
    /\ dimension \in [Axes -> DimValues]
    /\ cell_size \in CellSizes
    /\ cell = [ptype \in {PlanPType} |-> <<>>]
    /\ order = [ptype \in {PlanPType} |-> <<>>]
    /\ max_size \in {Min(CapValues)}
    /\ snap_metadata = [ptype \in {PlanPType} |-> {}]
    /\ extra_filename = "None"
    /\ extra_metadata = <<>>
    /\ mask = empty_mask
    /\ property_names = <<>>
    /\ comm_size = 1
    /\ reads = NoReads
    /\ NoRead
    /\ NoRegion
    /\ NoCache
    /\ pc = "empty"

\* grid.mask_region(mask, pos_min, pos_max) on the empty mask
MaskRegion ==
    /\ pc = "empty"
    /\ \E lo \in [Axes -> PosValues], extent \in [Axes -> Extents] :
        LET hi == [axis \in Axes |-> lo[axis] + extent[axis]]
        IN  /\ pos_min' = lo
            /\ pos_max' = hi
            /\ mask' = mask_region(mask, lo, hi)
    /\ pc' = "masked"
    /\ UNCHANGED <<gridVars, indexVars, cacheVars, property_names, comm_size,
                   reads, readVars, execVars>>

\* mask = grid.empty_mask() for the next region
EmptyMask ==
    /\ pc = "masked"
    /\ mask' = empty_mask
    /\ pos_min' = <<>>
    /\ pos_max' = <<>>
    /\ pc' = "empty"
    /\ UNCHANGED <<gridVars, indexVars, cacheVars, property_names, comm_size,
                   reads, readVars, execVars>>

NextMask == MaskRegion \/ EmptyMask

SpecMask == InitMask /\ [][NextMask]_vars

\* on every axis the region lies in the cell with index idx or in one of its
\* periodic images, a whole number of boxes away
InCellOfImage(idx) ==
    \A axis \in Axes :
        \E wraps \in (-MaxPos - 1)..(MaxPos + 3) :
            LET i == idx[axis] + wraps * dimension[axis]
            IN  /\ i * cell_size[axis] <= pos_min[axis]
                /\ pos_max[axis] < (i + 1) * cell_size[axis]

\* C14: a region that lies inside one cell of the periodically repeated grid
\* selects, on an empty mask, exactly the grid index of that cell.
C14_RegionInOneCellSelectsIt ==
    pc = "masked" =>
        \A idx \in GridIndices :
            (/\ \A axis \in Axes : pos_min[axis] <= pos_max[axis]
             /\ InCellOfImage(idx))
                => {sel \in GridIndices : mask[sel]} = {idx}

\* a region beyond the box on the first axis and below 0 on the second
C14_Witness ==
    /\ pc = "masked"
    /\ dimension = <<2, 2, 2>>
    /\ cell_size = <<1, 2, 3>>
    /\ pos_min = <<3, -2, 1>>
    /\ pos_max = <<3, -1, 2>>
    /\ {sel \in GridIndices : mask[sel]} = {<<1, 1, 0>>}

-----------------------------------------------------------------------------
(* DatasetCache.  A cache is the record of its four attributes and of the  *)
(* h5py.File objects it has created, in the order of their creation:       *)
(* infile is the position of the current one (0 for None) and a dataset    *)
(* handle is the pair <<position of its file object, dataset name>>.       *)
(* None is written <<>> for the two names and for the dataset.             *)

MaxOpens == 3

CacheFiles == {<<"snap", 0>>, <<"snap", 1>>}

CacheDatasets == {<<"PartType0", "Masses">>, <<"PartType0", "IDs">>}

\* DatasetCache.__init__
NewCache ==
    [file_name    |-> <<>>,
     infile       |-> 0,
     dataset_name |-> <<>>,
     dataset      |-> <<>>,
     files        |-> <<>>]

\* a cache that keeps its dataset when the file changes
OpenFile_KeepsDataset(c, file_name) ==
    IF file_name # c.file_name
    THEN [c EXCEPT !.files     = Append(@, [name |-> file_name, open |-> TRUE]),
                   !.infile    = Len(c.files) + 1,
                   !.file_name = file_name]
    ELSE c

\* lines 43-47: a new file object when the name differs from the cached one;
\* the previous file object is not closed, only no longer referred to
OpenFile(c, file_name) ==
    IF file_name # c.file_name
    THEN [c EXCEPT !.files        = Append(@, [name |-> file_name, open |-> TRUE]),
                   !.infile       = Len(c.files) + 1,
                   !.file_name    = file_name,
                   !.dataset_name = <<>>,
                   !.dataset      = <<>>]
    ELSE c

\* a lookup on every call
NeedsLookup_Always(c, dataset_name) == TRUE

\* line 49: dataset_name != self.dataset_name
NeedsLookup(c, dataset_name) == dataset_name # c.dataset_name

\* lines 49-51: self.dataset = self.infile[dataset_name] when the name differs
LookupDataset(c, dataset_name) ==
    IF NeedsLookup(c, dataset_name)
    THEN [c EXCEPT !.dataset      = <<c.infile, dataset_name>>,
                   !.dataset_name = dataset_name]
    ELSE c

\* DatasetCache.open_dataset: the cache after the call; it returns .dataset
open_dataset(c, file_name, dataset_name) ==
    LookupDataset(OpenFile(c, file_name), dataset_name)

\* DatasetCache.close: closes self.infile, which stays bound
close(c) ==
    [c EXCEPT !.dataset      = <<>>,
              !.dataset_name = <<>>,
              !.files        = IF c.infile # 0
                               THEN [@ EXCEPT ![c.infile].open = FALSE]
                               ELSE @,
              !.file_name    = <<>>]

\* the file objects of the cache that are open
OpenFiles(c) == {i \in 1..Len(c.files) : c.files[i].open}

\* file object i is referred to neither by infile nor by the cached dataset
Unreferenced(c, i) ==
    /\ i # c.infile
    /\ (IF c.dataset = <<>> THEN TRUE ELSE c.dataset[1] # i)

\* the interpreter frees an unreferenced file object, which closes it; when it
\* does so, if ever, is up to the interpreter
CollectFile(r) ==
    /\ r \in DOMAIN cache
    /\ \E i \in OpenFiles(cache[r]) :
        /\ Unreferenced(cache[r], i)
        /\ cache' = [cache EXCEPT ![r].files[i].open = FALSE]
    /\ UNCHANGED <<gridVars, indexVars, regionVars, callVars, reads, readVars, pc,
                   execVars, last_call>>

\* what a call did, from the cache before and after it
CallRecord(op, file_name, dataset_name, before, after, looked_up) ==
    [op           |-> op,
     file_name    |-> file_name,
     dataset_name |-> dataset_name,
     before       |-> before,
     opened       |-> Len(after.files) - Len(before.files),
     looked_up    |-> looked_up,
     returned     |-> after.dataset]

\* cache.open_dataset(file_name, dataset_name) of some caller
OpenDataset ==
    /\ pc = "cache"
    /\ Len(cache[0].files) < MaxOpens
    /\ \E file_name \in CacheFiles, dataset_name \in CacheDatasets :
        LET after == open_dataset(cache[0], file_name, dataset_name)
        IN  /\ cache' = [cache EXCEPT ![0] = after]
            /\ last_call' = CallRecord("open_dataset", file_name, dataset_name,
                                       cache[0], after,
                                       NeedsLookup(OpenFile(cache[0], file_name),
                                                   dataset_name))
    /\ UNCHANGED <<gridVars, indexVars, regionVars, callVars, reads, readVars, pc, execVars>>

\* the same call when the file does not hold the dataset: line 50 raises
\* KeyError after the file was opened
OpenDatasetRaises ==
    /\ pc = "cache"
    /\ Len(cache[0].files) < MaxOpens
    /\ \E file_name \in CacheFiles :
        LET after == OpenFile(cache[0], file_name)
        IN  /\ cache' = [cache EXCEPT ![0] = after]
            /\ last_call' = CallRecord("raised", file_name, <<"PartType0", "None">>,
                                       cache[0], after, TRUE)
    /\ UNCHANGED <<gridVars, indexVars, regionVars, callVars, reads, readVars, pc, execVars>>

\* cache.close()
CloseDatasetCache ==
    /\ pc = "cache"
    /\ cache' = [cache EXCEPT ![0] = close(@)]
    /\ last_call' = CallRecord("close", <<>>, <<>>, cache[0], close(cache[0]), FALSE)
    /\ UNCHANGED <<gridVars, indexVars, regionVars, callVars, reads, readVars, pc, execVars>>

\* one cache of one process, and any calls on it
InitCache ==
    /\ cell = [ptype \in {PlanPType} |->
                  [i \in 1..NrCells |-> [count |-> 0, offset |-> 0, file |-> 0]]]
    /\ max_size \in CapValues
    /\ snap_metadata = [ptype \in {PlanPType} |-> {}]
    /\ extra_filename = "None"
    /\ extra_metadata = <<>>
    /\ mask = NoMask
    /\ property_names = <<>>
    /\ comm_size = 1
    /\ reads = NoReads
    /\ NoRead
    /\ FlatIndex(NrCells)
    /\ NoRegion
    /\ cache = [r \in {0} |-> NewCache]
    /\ last_call = <<>>
    /\ pc = "cache"

NextCache == OpenDataset \/ OpenDatasetRaises \/ CloseDatasetCache \/ CollectFile(0)

SpecCache == InitCache /\ [][NextCache]_vars

\* C11: at most one file object opened by the cache is open at any time.
C11_AtMostOneOpenFile ==
    pc = "cache" => Cardinality(OpenFiles(cache[0])) <= 1

\* a call of open_dataset has returned
Returned == pc = "cache" /\ last_call # <<>> /\ last_call.op = "open_dataset"

\* C17: open_dataset opens a file exactly when the name differs from the
\* cached one; for another dataset of the cached file it looks the dataset up
\* in the file object it has; for the cached pair it does neither and returns
\* the cached dataset.
C17_OpensOnlyOnOtherFile ==
    Returned =>
        LET before    == last_call.before
            same_file == last_call.file_name = before.file_name
            same_dset == last_call.dataset_name = before.dataset_name
        IN  /\ last_call.opened = (IF same_file THEN 0 ELSE 1)
            /\ (same_file /\ ~same_dset) =>
                   /\ last_call.looked_up
                   /\ last_call.returned = <<before.infile, last_call.dataset_name>>
                   /\ cache[0].infile = before.infile
            /\ (same_file /\ same_dset) =>
                   /\ ~last_call.looked_up
                   /\ last_call.returned = before.dataset
                   /\ last_call.returned # <<>>

\* the cached pair was requested again after another file had been cached
C17_Witness ==
    /\ Returned
    /\ last_call.file_name = last_call.before.file_name
    /\ last_call.dataset_name = last_call.before.dataset_name
    /\ last_call.before.infile = 2
    /\ last_call.opened = 0 /\ ~last_call.looked_up
    /\ last_call.returned = <<2, last_call.dataset_name>>

\* the other dataset of the cached file was requested
C17_WitnessOtherDataset ==
    /\ Returned
    /\ last_call.file_name = last_call.before.file_name
    /\ last_call.before.dataset_name = <<"PartType0", "Masses">>
    /\ last_call.dataset_name = <<"PartType0", "IDs">>
    /\ last_call.opened = 0 /\ last_call.looked_up

\* C19: the dataset open_dataset(f, d) returns is dataset d of a file object
\* of file f that is the cache's current one and is open.
C19_ReturnsDatasetOfOpenFile ==
    Returned =>
        /\ last_call.returned # <<>>
        /\ last_call.returned[2] = last_call.dataset_name
        /\ last_call.returned[1] = cache[0].infile
        /\ cache[0].files[last_call.returned[1]].name = last_call.file_name
        /\ cache[0].files[last_call.returned[1]].open

\* the dataset name cached for file 0 was requested in file 1
C19_Witness ==
    /\ Returned
    /\ last_call.before.file_name = <<"snap", 0>>
    /\ last_call.before.dataset_name = <<"PartType0", "Masses">>
    /\ last_call.file_name = <<"snap", 1>>
    /\ last_call.dataset_name = <<"PartType0", "Masses">>
    /\ last_call.returned = <<2, <<"PartType0", "Masses">>>>

\* the file closed by close() was requested again
C19_WitnessAfterClose ==
    /\ Returned
    /\ last_call.before.file_name = <<>>
    /\ last_call.before.infile = 1
    /\ ~last_call.before.files[1].open
    /\ last_call.file_name = last_call.before.files[1].name
    /\ last_call.returned[1] = 2

-----------------------------------------------------------------------------
(* The collective read: every rank runs its tasks, closes its cache, waits, *)
(* syncs the arrays, waits and returns.  Lines 288-365 compute the same     *)
(* values on every rank and are taken once for all of them.                 *)

Ranks == 0..(comm_size - 1)

\* how far a position is along lines 367-380; 0 for a rank that has left
Phase(p) ==
    CASE p = "execute"  -> 1
      [] p = "close"    -> 2
      [] p = "barrier1" -> 3
      [] p = "sync"     -> 4
      [] p = "barrier2" -> 5
      [] p = "returned" -> 6
      [] OTHER          -> 0

\* a barrier that lets every rank through at once
Barrier_NoWait(here) == TRUE

\* a second barrier that does not wait
Barrier_FirstOnly(here) ==
    here = "barrier1" => \A s \in Ranks : Phase(wpc[s]) >= Phase(here)

\* comm.barrier(): a rank leaves it once every rank has entered it
Barrier(here) == \A s \in Ranks : Phase(wpc[s]) >= Phase(here)

\* lines 367-369: the cache is created and execute_tasks is entered
StartTasks ==
    /\ pc = "allocated"
    /\ pc' = "executing"
    /\ wpc' = [r \in Ranks |-> "execute"]
    /\ synced' = [r \in Ranks |-> 0]
    /\ cache' = [r \in Ranks |-> NewCache]
    /\ UNCHANGED <<gridVars, indexVars, regionVars, last_call, callVars, reads, readVars>>

\* the next task of the rank's queue runs to its end: ReadTask.__call__ gets
\* its dataset from the rank's cache (lines 78-79) and reads
ExecuteTask(r) ==
    /\ pc = "executing" /\ wpc[r] = "execute"
    /\ tasks[r] # <<>>
    /\ tasks' = [tasks EXCEPT ![r] = Tail(@)]
    /\ LET task == Head(tasks[r])
       IN  cache' = [cache EXCEPT ![r] = open_dataset(@, task.file_name,
                                                      <<task.ptype, task.dataset>>)]
    /\ UNCHANGED <<gridVars, indexVars, regionVars, last_call, callVars, reads, reads_for_type, all_file_nrs, nr_parts,
                   all_tasks, nr_tasks, data, error, pc, execVars>>

\* ReadTask.__call__ raises: the file or the dataset cannot be opened or read
TaskFails(r) ==
    /\ pc = "executing" /\ wpc[r] = "execute"
    /\ tasks[r] # <<>>
    /\ wpc' = [wpc EXCEPT ![r] = "raised"]
    /\ UNCHANGED <<gridVars, indexVars, regionVars, cacheVars, callVars, reads, readVars, pc, synced>>

\* a failure elsewhere takes the rank down before it has returned
Abort(r) ==
    /\ pc = "executing" /\ Phase(wpc[r]) \in 1..5
    /\ \E s \in Ranks : wpc[s] = "raised"
    /\ wpc' = [wpc EXCEPT ![r] = "aborted"]
    /\ UNCHANGED <<gridVars, indexVars, regionVars, cacheVars, callVars, reads, readVars, pc, synced>>

\* the queue is drained: execute_tasks returns
TasksDone(r) ==
    /\ pc = "executing" /\ wpc[r] = "execute"
    /\ tasks[r] = <<>>
    /\ wpc' = [wpc EXCEPT ![r] = "close"]
    /\ UNCHANGED <<gridVars, indexVars, regionVars, cacheVars, callVars, reads, readVars, pc, synced>>

\* line 371: cache.close(); the rank then enters the first barrier
CloseCache(r) ==
    /\ pc = "executing" /\ wpc[r] = "close"
    /\ wpc' = [wpc EXCEPT ![r] = "barrier1"]
    /\ cache' = [cache EXCEPT ![r] = close(@)]
    /\ UNCHANGED <<gridVars, indexVars, regionVars, last_call, callVars, reads, readVars, pc, synced>>

\* line 374: the first barrier lets the rank through
PassBarrier1(r) ==
    /\ pc = "executing" /\ wpc[r] = "barrier1"
    /\ Barrier("barrier1")
    /\ wpc' = [wpc EXCEPT ![r] = "sync"]
    /\ UNCHANGED <<gridVars, indexVars, regionVars, cacheVars, callVars, reads, readVars, pc, synced>>

\* lines 375-377: sync() on the next array
SyncArray(r) ==
    /\ pc = "executing" /\ wpc[r] = "sync"
    /\ synced[r] < Len(Arrays(property_names))
    /\ synced' = [synced EXCEPT ![r] = @ + 1]
    /\ UNCHANGED <<gridVars, indexVars, regionVars, cacheVars, callVars, reads, readVars, pc, wpc>>

\* every array is synced: the rank enters the second barrier
EnterBarrier2(r) ==
    /\ pc = "executing" /\ wpc[r] = "sync"
    /\ synced[r] = Len(Arrays(property_names))
    /\ wpc' = [wpc EXCEPT ![r] = "barrier2"]
    /\ UNCHANGED <<gridVars, indexVars, regionVars, cacheVars, callVars, reads, readVars, pc, synced>>

\* lines 378-380: the second barrier lets the rank through and it returns data
PassBarrier2(r) ==
    /\ pc = "executing" /\ wpc[r] = "barrier2"
    /\ Barrier("barrier2")
    /\ wpc' = [wpc EXCEPT ![r] = "returned"]
    /\ UNCHANGED <<gridVars, indexVars, regionVars, cacheVars, callVars, reads, readVars, pc, synced>>

\* a snapshot whose PartType0 group holds a dataset named like the group, so
\* that the tests of lines 321 and 331 let tasks through, and an extra file
InitCollective ==
    /\ cell \in {[ptype \in PTypes |->
                    IF ptype = "PartType0" THEN cells
                    ELSE [i \in 1..ReadNrCells |-> [count |-> 0, offset |-> 0, file |-> 0]]] :
                 cells \in SnapshotCells}
    /\ max_size \in ReadCapValues
    /\ snap_metadata = [ptype \in PTypes |-> {"Masses", "PartType0"}]
    /\ extra_filename = "extra"
    /\ extra_metadata = [ptype \in PTypes |-> {"Masses"}]
    /\ mask = [i \in 1..ReadNrCells |-> TRUE]
    /\ property_names \in {<< <<"PartType0", names>> >> :
                              names \in {<<"PartType0">>, <<"PartType0", "Masses">>}}
    /\ comm_size \in 1..MaxRanks
    /\ reads = NoReads
    /\ NoRead
    /\ FlatIndex(ReadNrCells)
    /\ NoRegion
    /\ NoCache
    /\ pc = "start"

Next ==
    \/ PlanReads \/ CountParticles \/ CreateTasks \/ ShareTasks \/ Allocate
    \/ StartTasks
    \/ \E r \in Ranks : ExecuteTask(r)
    \/ \E r \in Ranks : TaskFails(r)
    \/ \E r \in Ranks : Abort(r)
    \/ \E r \in Ranks : TasksDone(r)
    \/ \E r \in Ranks : CloseCache(r)
    \/ \E r \in Ranks : PassBarrier1(r)
    \/ \E r \in Ranks : SyncArray(r)
    \/ \E r \in Ranks : EnterBarrier2(r)
    \/ \E r \in Ranks : PassBarrier2(r)
    \/ \E r \in Ranks : CollectFile(r)

Spec == InitCollective /\ [][Next]_vars

\* C9: a rank that syncs has seen every rank drain its queue, and a rank that
\* has returned has seen every rank drain its queue and sync every array.
C9_ReturnAfterAllSynced ==
    pc = "executing" =>
        \A r \in Ranks :
            /\ Phase(wpc[r]) >= 4 =>
                   \A s \in Ranks : tasks[s] = <<>> /\ Phase(wpc[s]) >= 3
            /\ wpc[r] = "returned" =>
                   \A s \in Ranks :
                       /\ tasks[s] = <<>>
                       /\ Phase(wpc[s]) >= 5
                       /\ synced[s] = Len(Arrays(property_names))

\* one rank has returned two synced arrays while another still waits in the
\* second barrier, and tasks were run
C9_Witness ==
    /\ pc = "executing"
    /\ comm_size = 3
    /\ nr_tasks >= 3
    /\ Len(Arrays(property_names)) = 2
    /\ wpc[0] = "returned"
    /\ wpc[1] = "barrier2"

\* C12: once a rank has called close() on its cache, after its last task,
\* every file the cache opened during the read is closed and the cached file
\* and dataset names are reset.
C12_AllFilesClosedAfterClose ==
    pc = "executing" =>
        \A r \in Ranks :
            Phase(wpc[r]) >= 3 =>
                /\ OpenFiles(cache[r]) = {}
                /\ cache[r].file_name = <<>>
                /\ cache[r].dataset_name = <<>>
                /\ cache[r].dataset = <<>>

\* C10: once a task has failed on some rank, no rank returns the arrays.
C10_NoReturnAfterFailure ==
    pc = "executing" =>
        ((\E r \in Ranks : wpc[r] = "raised") => \A s \in Ranks : wpc[s] # "returned")

\* one task of three ranks failed after the other ranks ran theirs: one of
\* them is held in the first barrier, the other was taken down
C10_Witness ==
    /\ pc = "executing"
    /\ comm_size = 3
    /\ nr_tasks >= 3
    /\ wpc[1] = "raised"
    /\ wpc[0] = "barrier1"
    /\ wpc[2] = "aborted"
    /\ tasks[0] = <<>>

====
